---- MODULE Spec2Model ----
(***************************************************************************)
(* Model of src/src/twitter/utils/imageUtils.ts: one call of               *)
(* assembleTwitterInterface(recentMainTweetsContent, tweetId) against a    *)
(* backing store of tweets.  Every await of the call is one step; a fetch  *)
(* (scraper.getTweet, getConversationWithUser, axios.get) resolves to a    *)
(* value, to not-found, or rejects, chosen per attempt.                    *)
(*                                                                         *)
(* Strings built by template literals are modelled as records of their     *)
(* parts (one field per section, a section being a sequence of rendered    *)
(* messages), so that the presence and content of a section can be read.   *)
(* formatTimestamp is outside this file; a timestamp is carried through    *)
(* unchanged.  Every tweet of the store has timeParsed set.                *)
(*                                                                         *)
(* Further specifications follow the same file's replyToTweet over a       *)
(* sequence of calls (SpecReply), the walk on a store with a cycle of      *)
(* parents (SpecCycle), two calls in a row (SpecTwice), and single calls   *)
(* of formatMessage (SpecFormat) and of AnthropicAdapter.processResponse   *)
(* (SpecAdapter).                                                          *)
(***************************************************************************)
EXTENDS Integers, Sequences, FiniteSets, TLC

\* Longest reply chain (focus plus ancestors) of the backing store.
MaxChain == 3

\* Number of parent fetches of one walk that are followed; more than any
\* chain without a cycle needs.
MaxHops == 5

\* Number of replyToTweet calls followed.
MaxCalls == 2

\* Longest content list of a response handed to processResponse.
MaxContent == 3

VARIABLES
    tweets,                 \* backing store: id -> Tweet (the platform's data)
    storedConversation,     \* backing store: the rows getConversationWithUser reads
    backing,                \* "changing": a fetch may settle differently each time;
                            \* "unchanged": a fetch of the same key settles the same way
    run,                    \* which call of assembleTwitterInterface is observed
    firstResult,            \* value returned by the first call
    pc,                     \* position of the call
    tweet,                  \* fetchAndFormatTweetMemory: const tweet (l.214)
    conversationWithUser,   \* fetchAndFormatTweetMemory: l.221
    focusTweet,             \* getConversationThread: const focusTweet (l.51)
    currentTweet,           \* getConversationThread: let currentTweet (l.61)
    parentTweets,           \* getConversationThread: const parentTweets (l.58)
    pendingQuotes,          \* indices of parentTweets whose quote fetch is in flight (l.73-77)
    conversation,           \* results of the Promise.all map, by index (l.73-96)
    conversationThread,     \* value returned by getConversationThread (l.223)
    tweetMemoryResult,      \* assembleTwitterInterface: l.296
    imageContents,          \* assembleTwitterInterface: l.298
    processedPhotoUrls,     \* assembleTwitterInterface: l.305
    photoIdx,               \* position in the photo loop being run
    result,                 \* value returned by assembleTwitterInterface (l.388)
    fetchLog,               \* history: every fetch attempted, with its outcome
    rpc,                    \* position of the replyToTweet call
    calls,                  \* replyToTweet calls started so far
    replyToTweetId,         \* replyToTweet: parameter (l.408)
    mediaUrls,              \* replyToTweet: whether mediaUrls was passed (l.410)
    targetTweet,            \* replyToTweet: const targetTweet (l.414)
    replyTweetId,           \* replyToTweet: const replyTweetId (l.429); 0 is undefined
    returnValue,            \* value the call returned; 0 is null
    interactionLogged,      \* logTwitterInteraction was called by this call (l.461)
    sentReplies,            \* platform: the replies posted by the bot, in order
    twitter_interactions,   \* database: tweet_id of the rows of twitter_interactions
    formatArg,              \* formatMessage: its argument msg and who wrote it
    formatted,              \* formatMessage: value returned (<< >> before the call)
    response,               \* processResponse: response.content of its argument
    adapterResult           \* processResponse: value returned (<< >> before the call)

\* assembleTwitterInterface and the functions it awaits.
asmVars == << tweets, storedConversation, backing, run, firstResult, pc, tweet,
              conversationWithUser, focusTweet, currentTweet,
              parentTweets, pendingQuotes, conversation, conversationThread,
              tweetMemoryResult, imageContents, processedPhotoUrls, photoIdx,
              result, fetchLog >>

\* replyToTweet, the platform it posts to and the table it writes.
replyVars == << rpc, calls, replyToTweetId, mediaUrls, targetTweet,
                replyTweetId, returnValue, interactionLogged, sentReplies,
                twitter_interactions >>

\* One call of formatMessage (l.140-159).
formatVars == << formatArg, formatted >>

\* One call of AnthropicAdapter.processResponse.
adapterVars == << response, adapterResult >>

\* What a step of assembleTwitterInterface never touches.
notAsmVars == << replyVars, formatVars, adapterVars >>

vars == << asmVars, replyVars, formatVars, adapterVars >>

(***************************************************************************)
(* Backing data                                                            *)
(***************************************************************************)
\* The id handed to assembleTwitterInterface.
tweetId == 1

ChainIds == 1..MaxChain
QuoteA == MaxChain + 1
QuoteB == MaxChain + 2
QuoteC == MaxChain + 3
Ids == 1..(MaxChain + 3)

\* scraper.getTweet resolving to null / undefined.
NullTweet ==
    [id |-> 0, username |-> "", text |-> "", timeParsed |-> 0,
     inReplyToStatusId |-> 0, quotedStatusId |-> 0, photos |-> << >>]

\* (username, text) of the focus tweet: ordinary, image-only (no text
\* body), and without a username.
FocusVariants == { <<"bob", "Hi">>, <<"bob", "">>, <<"", "Hi">> }

ChainUser(k) == IF k % 2 = 0 THEN "alice" ELSE "carol"

\* The reply chain tweetId = 1 <- 2 <- ... <- n: tweet k replies to k + 1,
\* the root n replies to nothing.  The focus may quote QuoteA, an ancestor
\* may quote QuoteB (even id) or QuoteC (odd id), every chain tweet may
\* carry the image "u1", and the focus an image "u0" of its own before it.
ChainTweet(k, n, fv, quotes, pics) ==
    [id |-> k,
     username |-> IF k = tweetId THEN fv[1] ELSE ChainUser(k),
     text |-> IF k = tweetId THEN fv[2] ELSE IF k = 2 THEN "Hello" ELSE "older",
     timeParsed |-> MaxChain + 1 - k,
     inReplyToStatusId |-> IF k < n THEN k + 1 ELSE 0,
     quotedStatusId |->
        IF ~quotes[k] THEN 0
        ELSE IF k = tweetId THEN QuoteA
        ELSE IF k % 2 = 0 THEN QuoteB ELSE QuoteC,
     photos |-> IF ~pics[k] THEN << >>
                ELSE IF k = tweetId THEN << "u0", "u1" >> ELSE << "u1" >>]

\* A quoted tweet with two images that itself quotes and replies to
\* another tweet, and a quoted tweet without username and text.
QuoteTweetA ==
    [id |-> QuoteA, username |-> "dave", text |-> "quoted", timeParsed |-> 0,
     inReplyToStatusId |-> QuoteB, quotedStatusId |-> QuoteB,
     photos |-> << "u1", "u2" >>]

QuoteTweetB ==
    [id |-> QuoteB, username |-> "", text |-> "", timeParsed |-> 0,
     inReplyToStatusId |-> 0, quotedStatusId |-> 0,
     photos |-> << "u2", "u2" >>]

\* A quoted tweet that itself quotes and replies to QuoteA.
QuoteTweetC ==
    [id |-> QuoteC, username |-> "erin", text |-> "other", timeParsed |-> 0,
     inReplyToStatusId |-> QuoteA, quotedStatusId |-> QuoteA,
     photos |-> << "u2" >>]

World(n, fv, quotes, pics) ==
    [i \in Ids |->
        IF i = QuoteA THEN QuoteTweetA
        ELSE IF i = QuoteB THEN QuoteTweetB
        ELSE IF i = QuoteC THEN QuoteTweetC
        ELSE IF i <= n THEN ChainTweet(i, n, fv, quotes, pics)
        ELSE NullTweet]

Worlds ==
    { World(n, fv, [k \in ChainIds |-> k <= n /\ k \in qs],
                   [k \in ChainIds |-> k <= n /\ k \in ps]) :
        n \in ChainIds, fv \in FocusVariants,
        qs \in SUBSET ChainIds, ps \in SUBSET ChainIds }

\* Length of the reply chain that starts at id, in the backing store.
RECURSIVE ChainLength(_, _)
ChainLength(tw, id) ==
    IF id = 0 \/ tw[id].id = 0 THEN 0
    ELSE 1 + ChainLength(tw, tw[id].inReplyToStatusId)

\* What getConversationWithUser can resolve to.
HistoryEntry ==
    [sender |-> "agent", text |-> "past reply", timestamp |-> 0]
HistoryLists == { << >>, << HistoryEntry >> }


(***************************************************************************)
(* Values                                                                  *)
(***************************************************************************)
\* quoteContext: QuoteContext | null (l.9-14, l.75).
NoQuote == [present |-> FALSE, sender |-> "", text |-> "", timestamp |-> 0,
            photos |-> << >>]

\* x || 'Unknown User' (l.80, 89, 104, 116, 334, 364, 369).
OrUnknownUser(s) == IF s = "" THEN "Unknown User" ELSE s

\* The object built from a resolved quoted tweet (l.79-84 and l.103-108).
QuoteContextOf(quotedTweet) ==
    [present |-> TRUE,
     sender |-> OrUnknownUser(quotedTweet.username),
     text |-> quotedTweet.text,
     timestamp |-> quotedTweet.timeParsed,
     photos |-> quotedTweet.photos]

\* The element built for a parent tweet (l.88-95); isFocusTweet is not set.
ParentNode(t, quoteContext) ==
    [sender |-> OrUnknownUser(t.username),
     tweet_id |-> t.id,
     text |-> t.text,
     timestamp |-> t.timeParsed,
     photos |-> t.photos,
     quoteContext |-> quoteContext,
     isFocusTweet |-> FALSE]

\* The element built for the focus tweet (l.115-123).
FocusNode(t, quoteContext) ==
    [sender |-> OrUnknownUser(t.username),
     tweet_id |-> t.id,
     text |-> t.text,
     timestamp |-> t.timeParsed,
     photos |-> t.photos,
     quoteContext |-> quoteContext,
     isFocusTweet |-> TRUE]

\* return [...conversation, {focus}] (l.113-124).
ThreadOf(conv, focus, focusQuoteContext) ==
    conv \o << FocusNode(focus, focusQuoteContext) >>

(***************************************************************************)
(* formatMemory (l.138-188)                                                *)
(***************************************************************************)
\* process.env.TWITTER_USERNAME (l.143, l.150).
TWITTER_USERNAME == "cypherbot"

\* String.prototype.toLowerCase on the handles of the model.
ToLowerCase(s) ==
    CASE s = "Agent" -> "agent"
      [] s = "AGENT" -> "agent"
      [] s = "Unknown User" -> "unknown user"
      [] OTHER -> s

\* isAgent ? '(YOU)' : sender (l.142-144 and l.149-151).
SenderDisplay(sender) ==
    IF ToLowerCase(sender) = "agent" \/ sender = TWITTER_USERNAME
    THEN "(YOU)" ELSE sender

\* formatMessage (l.140-159): the rendered line and, when the message has
\* a quote context, the quote line with its image count (0: no image line).
FormatMessage(msg) ==
    [timestamp |-> msg.timestamp,
     senderDisplay |-> SenderDisplay(msg.sender),
     text |-> msg.text,
     quote |-> IF msg.quoteContext.present
               THEN << [senderDisplay |-> SenderDisplay(msg.quoteContext.sender),
                        text |-> msg.quoteContext.text,
                        images |-> Len(msg.quoteContext.photos)] >>
               ELSE << >>]

\* A history entry carries no quoteContext (undefined, l.148).
FormatHistoryMessage(h) ==
    FormatMessage([sender |-> h.sender, text |-> h.text,
                   timestamp |-> h.timestamp, quoteContext |-> NoQuote])

\* msgs.map(formatMessage) (l.171, l.181).
FormatMessages(msgs) == [i \in 1..Len(msgs) |-> FormatMessage(msgs[i])]

FormatHistory(historyMessages) ==
    [i \in 1..Len(historyMessages) |-> FormatHistoryMessage(historyMessages[i])]

\* const [parentTweet, ...restThreadMessages] = threadMessages (l.162):
\* parentTweet is the first element, undefined for an empty array.
ParentTweetOf(threadMessages) ==
    IF Len(threadMessages) > 0 THEN << threadMessages[1] >> ELSE << >>

RestThreadMessages(threadMessages) ==
    IF Len(threadMessages) > 0 THEN Tail(threadMessages) ELSE << >>

\* restThreadMessages.pop() (l.163): the last element of the rest,
\* undefined when the rest is empty.
PoppedFocusTweet(threadMessages) ==
    LET rest == RestThreadMessages(threadMessages)
    IN  IF Len(rest) > 0 THEN << rest[Len(rest)] >> ELSE << >>

\* repliesAbove taken before the pop: the focus tweet stays in it.
RepliesAboveNoPop(threadMessages) == RestThreadMessages(threadMessages)

\* repliesAbove: the rest after the pop (l.164).
RepliesAbove(threadMessages) ==
    LET rest == RestThreadMessages(threadMessages)
    IN  IF Len(rest) > 0 THEN SubSeq(rest, 1, Len(rest) - 1) ELSE << >>

\* The returned string, by section: each section is the sequence of the
\* messages rendered in it; an empty sequence is a section that is ''.
FormatMemory(threadMessages, historyMessages) ==
    [parentTweetSection |-> FormatMessages(ParentTweetOf(threadMessages)),
     repliesAboveSection |-> FormatMessages(RepliesAbove(threadMessages)),
     focusTweetSection |-> FormatMessages(PoppedFocusTweet(threadMessages)),
     formattedHistory |-> FormatHistory(historyMessages),
     historyPlaceholder |-> (Len(historyMessages) = 0)]

(***************************************************************************)
(* fetchAndFormatTweetMemory: the synchronous tail (l.225-266)             *)
(***************************************************************************)
\* !tweet?.username || !tweet?.text (l.215), negated.
FocusUsable(t) == t.id # 0 /\ t.username # "" /\ t.text # ""

\* The pairs one non-focus message contributes (l.235-246).
\* A reduce callback that leaves the quote context's photos out.
PhotosOfMessageOwnOnly(message) ==
    [i \in 1..Len(message.photos) |->
        [photoUrl |-> message.photos[i], sender |-> message.sender]]

\* The pairs one thread message contributes (l.235-246): its own photos,
\* then its quote context's photos.
PhotosOfMessage(message) ==
    [i \in 1..Len(message.photos) |->
        [photoUrl |-> message.photos[i], sender |-> message.sender]]
    \o
    (IF message.quoteContext.present
     THEN [i \in 1..Len(message.quoteContext.photos) |->
              [photoUrl |-> message.quoteContext.photos[i],
               sender |-> message.quoteContext.sender]]
     ELSE << >>)

\* A reduce without the isFocusTweet test of l.231.
RECURSIVE AllPhotosWithFocus(_)
AllPhotosWithFocus(thread) ==
    IF thread = << >> THEN << >>
    ELSE PhotosOfMessage(Head(thread)) \o AllPhotosWithFocus(Tail(thread))

\* conversationThread.reduce(...) (l.229-249).
RECURSIVE AllPhotos(_)
AllPhotos(thread) ==
    IF thread = << >> THEN << >>
    ELSE (IF Head(thread).isFocusTweet THEN << >> ELSE PhotosOfMessage(Head(thread)))
         \o AllPhotos(Tail(thread))

\* conversationThread.find(t => t.isFocusTweet) (l.252).
RECURSIVE FindFocus(_)
FindFocus(thread) ==
    IF thread = << >> THEN << >>
    ELSE IF Head(thread).isFocusTweet THEN << Head(thread) >>
    ELSE FindFocus(Tail(thread))

\* An object with an empty memory returned where the code returns null.
EmptyShellResult ==
    [isNull |-> FALSE, memory |-> FormatMemory(<< >>, << >>), username |-> "",
     text |-> "", photos |-> << >>, focusTweet |-> << >>]

\* return null (l.217, l.275).
NullResult ==
    [isNull |-> TRUE, memory |-> FormatMemory(<< >>, << >>), username |-> "",
     text |-> "", photos |-> << >>, focusTweet |-> << >>]

\* The object returned at l.254-266; focusTweet is << >> for undefined.
MemoryResult(t, history, thread) ==
    [isNull |-> FALSE,
     memory |-> FormatMemory(thread, history),
     username |-> t.username,
     text |-> t.text,
     photos |-> AllPhotos(thread),
     focusTweet |->
        [i \in 1..Len(FindFocus(thread)) |->
            [sender |-> FindFocus(thread)[i].sender,
             text |-> FindFocus(thread)[i].text,
             timestamp |-> FindFocus(thread)[i].timestamp,
             photos |-> FindFocus(thread)[i].photos,
             quoteContext |-> FindFocus(thread)[i].quoteContext]]]


(***************************************************************************)
(* Fetches                                                                 *)
(***************************************************************************)
\* How an awaited fetch can settle: with a value, with null, by rejecting.
Outcomes == {"value", "null", "throw"}

\* await scraper.getTweet(id) that does not reject (l.51, 63, 77, 101, 214).
GetTweet(id, o) == IF o = "value" THEN tweets[id] ELSE NullTweet

\* Buffer.from(response.data).toString('base64') of the bytes behind a url.
Base64(imageUrl) == << "base64", imageUrl >>

\* getImageAsBase64 with the try/catch removed: a rejected axios.get
\* propagates to the caller.
GetImageAsBase64NoCatch(imageUrl, o) ==
    IF o = "value"
    THEN [threw |-> FALSE,
          value |-> << [media_type |-> "image/jpeg", data |-> Base64(imageUrl)] >>]
    ELSE [threw |-> TRUE, value |-> << >>]

\* getImageAsBase64 (l.21-41): the payload, or null (<< >>) when axios.get
\* rejects (l.37-40); it never throws.
GetImageAsBase64(imageUrl, o) ==
    IF o = "value"
    THEN [threw |-> FALSE,
          value |-> << [media_type |-> "image/jpeg", data |-> Base64(imageUrl)] >>]
    ELSE [threw |-> FALSE, value |-> << >>]

\* The three photo loops of assembleTwitterInterface, by position.
PhotoLoops == {"asm_focusPhotos", "asm_quotePhotos", "asm_threadPhotos"}

\* What a fetch site asks for: an image by url, the history, a tweet by id.
KindOf(site) ==
    IF site \in PhotoLoops THEN "image"
    ELSE IF site = "fm_history" THEN "history" ELSE "tweet"

\* How the fetches of the same key settled so far.
Settled(site, id, url) ==
    { fetchLog[n].outcome : n \in
        { m \in DOMAIN fetchLog :
            /\ KindOf(fetchLog[m].site) = KindOf(site)
            /\ KindOf(site) = "tweet" => fetchLog[m].id = id
            /\ KindOf(site) = "image" => fetchLog[m].url = url } }

\* How a fetch can settle now: any way while the backing data may change
\* under the call; the way the same key settled before when it is unchanged.
OutcomesOf(all, site, id, url) ==
    IF backing = "unchanged" /\ Settled(site, id, url) # {}
    THEN Settled(site, id, url)
    ELSE all

Logged(site, id, url, o) ==
    Append(fetchLog, [site |-> site, id |-> id, url |-> url, outcome |-> o])

(***************************************************************************)
(* getConversationThread (l.48-130): where the call stands after a step.   *)
(* A frame is the function's locals plus, once it has returned, the value  *)
(* returned.                                                               *)
(***************************************************************************)
Frame(pcv, cur, parents, pend, conv, returned, thread) ==
    [pc |-> pcv, currentTweet |-> cur, parentTweets |-> parents,
     pendingQuotes |-> pend, conversation |-> conv,
     returned |-> returned, thread |-> thread]

\* return [] (l.54 and the catch, l.126-129).
ReturnEmpty(cur, parents, conv) ==
    Frame("returned", cur, parents, {}, conv, TRUE, << >>)

\* l.98-124: the focus tweet's quote is fetched after the Promise.all.
AfterQuotes(focus, cur, parents, conv) ==
    IF focus.quotedStatusId # 0
    THEN Frame("ct_focusQuote", cur, parents, {}, conv, FALSE, << >>)
    ELSE Frame("returned", cur, parents, {}, conv, TRUE,
               ThreadOf(conv, focus, NoQuote))

\* l.73-96: parentTweets.map starts every callback; a callback whose tweet
\* quotes nothing is settled at once, the others await their fetch.
AfterWalk(focus, cur, parents) ==
    LET conv == [i \in 1..Len(parents) |-> ParentNode(parents[i], NoQuote)]
        pend == { i \in 1..Len(parents) : parents[i].quotedStatusId # 0 }
    IN  IF pend # {}
        THEN Frame("ct_quotes", cur, parents, pend, conv, FALSE, << >>)
        ELSE AfterQuotes(focus, cur, parents, conv)

\* The results of the map settled in completion order: the quote context
\* goes to the first callback still unsettled, not to the one that fetched.
SettleQuoteInCompletionOrder(conv, pend, parents, i, quoteContext) ==
    LET j == CHOOSE k \in pend : \A m \in pend : k <= m
    IN  [conv EXCEPT ![j] = ParentNode(parents[j], quoteContext)]

\* l.78-95: the callback of parentTweets[i] returns its element with the
\* quote context it fetched; Promise.all keeps the results by index.
SettleQuote(conv, pend, parents, i, quoteContext) ==
    [conv EXCEPT ![i] = ParentNode(parents[i], quoteContext)]

\* The walk with currentTweet = parentTweet (l.66) left out.
WalkNextNotAdvancing(focus, cur, parents) ==
    IF focus.inReplyToStatusId # 0
    THEN Frame("ct_walk", focus, parents, {}, << >>, FALSE, << >>)
    ELSE AfterWalk(focus, cur, parents)

\* A callback that stays in flight after it settled.
StillPendingAll(pend, i) == pend

\* The callbacks of the map still awaiting their fetch once callback i
\* has settled (l.77: each callback fetches once).
StillPending(pend, i) == pend \ {i}

\* A walk that stops at a parent it has already visited.
WalkNextVisitedOnce(focus, cur, parents) ==
    IF /\ cur.inReplyToStatusId # 0
       /\ cur.inReplyToStatusId # focus.id
       /\ \A i \in DOMAIN parents : parents[i].id # cur.inReplyToStatusId
    THEN Frame("ct_walk", cur, parents, {}, << >>, FALSE, << >>)
    ELSE AfterWalk(focus, cur, parents)

\* l.62: the loop condition.
WalkNext(focus, cur, parents) ==
    IF cur.inReplyToStatusId # 0
    THEN Frame("ct_walk", cur, parents, {}, << >>, FALSE, << >>)
    ELSE AfterWalk(focus, cur, parents)

\* Install a frame.  When getConversationThread has returned,
\* fetchAndFormatTweetMemory runs to its return (l.223-266) and
\* assembleTwitterInterface starts its photo loops (l.296-312).
Install(fr) ==
    /\ currentTweet' = fr.currentTweet
    /\ parentTweets' = fr.parentTweets
    /\ pendingQuotes' = fr.pendingQuotes
    /\ conversation' = fr.conversation
    /\ IF fr.returned
       THEN /\ conversationThread' = fr.thread
            /\ tweetMemoryResult' =
                   MemoryResult(tweet, conversationWithUser, fr.thread)
            /\ pc' = "asm_focusPhotos"
       ELSE /\ UNCHANGED << conversationThread, tweetMemoryResult >>
            /\ pc' = fr.pc

\* fetchAndFormatTweetMemory returns null (l.217, l.275): the assembler
\* skips the photo loops (l.308).
ReturnNull ==
    /\ tweetMemoryResult' = NullResult
    /\ pc' = "asm_text"

(***************************************************************************)
(* Steps of fetchAndFormatTweetMemory                                      *)
(***************************************************************************)
\* l.214-218: the first fetch of the focus tweet.
FetchTweetForMemory ==
    /\ pc = "fm_getTweet"
    /\ \E o \in OutcomesOf(Outcomes, "fm_getTweet", tweetId, "") :
        /\ fetchLog' = Logged("fm_getTweet", tweetId, "", o)
        /\ IF o # "throw" /\ FocusUsable(GetTweet(tweetId, o))
           THEN /\ tweet' = GetTweet(tweetId, o)
                /\ pc' = "fm_history"
                /\ UNCHANGED tweetMemoryResult
           ELSE /\ ReturnNull
                /\ UNCHANGED tweet
    /\ UNCHANGED << notAsmVars, tweets, storedConversation, backing, run,
                    firstResult,
                    conversationWithUser, focusTweet, currentTweet,
                    parentTweets, pendingQuotes, conversation,
                    conversationThread, imageContents, processedPhotoUrls,
                    photoIdx, result >>

\* l.221: the persisted history; a rejection is caught at l.267.
FetchConversationWithUser ==
    /\ pc = "fm_history"
    /\ \E o \in OutcomesOf({"value", "throw"}, "fm_history", 0, "") :
        /\ fetchLog' = Logged("fm_history", 0, "", o)
        /\ IF o = "value"
           THEN /\ conversationWithUser' = storedConversation
                /\ pc' = "ct_getFocus"
                /\ UNCHANGED tweetMemoryResult
           ELSE /\ ReturnNull
                /\ UNCHANGED conversationWithUser
    /\ UNCHANGED << notAsmVars, tweets, storedConversation, backing, run,
                    firstResult,
                    tweet, focusTweet, currentTweet, parentTweets,
                    pendingQuotes, conversation, conversationThread,
                    imageContents, processedPhotoUrls, photoIdx, result >>

(***************************************************************************)
(* Steps of getConversationThread                                          *)
(***************************************************************************)
\* l.51-61: the second fetch of the focus tweet.
FetchFocusTweet ==
    /\ pc = "ct_getFocus"
    /\ \E o \in OutcomesOf(Outcomes, "ct_getFocus", tweetId, "") :
        /\ fetchLog' = Logged("ct_getFocus", tweetId, "", o)
        /\ LET t == GetTweet(tweetId, o)
           IN  IF o = "value"
               THEN /\ focusTweet' = t
                    /\ Install(WalkNext(t, t, << >>))
               ELSE /\ UNCHANGED focusTweet
                    /\ Install(ReturnEmpty(currentTweet, << >>, << >>))
    /\ UNCHANGED << notAsmVars, tweets, storedConversation, backing, run,
                    firstResult,
                    tweet, conversationWithUser, imageContents,
                    processedPhotoUrls, photoIdx, result >>

\* l.62-70: one iteration of the upward walk.
FetchParentTweet ==
    /\ pc = "ct_walk"
    /\ Len(parentTweets) < MaxHops
    /\ \E o \in OutcomesOf(Outcomes, "ct_walk",
                         currentTweet.inReplyToStatusId, "") :
        /\ fetchLog' = Logged("ct_walk", currentTweet.inReplyToStatusId, "", o)
        /\ LET parentTweet == GetTweet(currentTweet.inReplyToStatusId, o)
           IN  CASE o = "value" ->
                      Install(WalkNext(focusTweet, parentTweet,
                                       << parentTweet >> \o parentTweets))
                 [] o = "null" ->
                      Install(AfterWalk(focusTweet, currentTweet, parentTweets))
                 [] o = "throw" ->
                      Install(ReturnEmpty(currentTweet, parentTweets, << >>))
    /\ UNCHANGED << notAsmVars, tweets, storedConversation, backing, run,
                    firstResult,
                    tweet, conversationWithUser, focusTweet,
                    imageContents, processedPhotoUrls, photoIdx, result >>

\* l.76-86: the quote fetch of one parent tweet settles; the fetches of
\* the map are in flight together and settle in any order.  A rejection
\* rejects the Promise.all and lands in the catch (l.126-129).
FetchParentQuote ==
    /\ pc = "ct_quotes"
    /\ \E i \in pendingQuotes :
       \E o \in OutcomesOf(Outcomes, "ct_quotes",
                          parentTweets[i].quotedStatusId, "") :
        /\ fetchLog' = Logged("ct_quotes", parentTweets[i].quotedStatusId, "", o)
        /\ LET quotedTweet == GetTweet(parentTweets[i].quotedStatusId, o)
               conv == IF o = "value"
                       THEN SettleQuote(conversation, pendingQuotes, parentTweets,
                                        i, QuoteContextOf(quotedTweet))
                       ELSE conversation
               pend == StillPending(pendingQuotes, i)
           IN  IF o = "throw"
               THEN Install(ReturnEmpty(currentTweet, parentTweets, conversation))
               ELSE IF pend # {}
               THEN Install(Frame("ct_quotes", currentTweet, parentTweets,
                                  pend, conv, FALSE, << >>))
               ELSE Install(AfterQuotes(focusTweet, currentTweet,
                                        parentTweets, conv))
    /\ UNCHANGED << notAsmVars, tweets, storedConversation, backing, run,
                    firstResult,
                    tweet, conversationWithUser, focusTweet,
                    imageContents, processedPhotoUrls, photoIdx, result >>

\* l.99-124: the focus tweet's quote, then the return.
FetchFocusQuote ==
    /\ pc = "ct_focusQuote"
    /\ \E o \in OutcomesOf(Outcomes, "ct_focusQuote",
                         focusTweet.quotedStatusId, "") :
        /\ fetchLog' = Logged("ct_focusQuote", focusTweet.quotedStatusId, "", o)
        /\ LET quotedTweet == GetTweet(focusTweet.quotedStatusId, o)
           IN  CASE o = "value" ->
                      Install(Frame("returned", currentTweet, parentTweets, {},
                                    conversation, TRUE,
                                    ThreadOf(conversation, focusTweet,
                                             QuoteContextOf(quotedTweet))))
                 [] o = "null" ->
                      Install(Frame("returned", currentTweet, parentTweets, {},
                                    conversation, TRUE,
                                    ThreadOf(conversation, focusTweet, NoQuote)))
                 [] o = "throw" ->
                      Install(ReturnEmpty(currentTweet, parentTweets, conversation))
    /\ UNCHANGED << notAsmVars, tweets, storedConversation, backing, run,
                    firstResult,
                    tweet, conversationWithUser, focusTweet,
                    imageContents, processedPhotoUrls, photoIdx, result >>


(***************************************************************************)
(* assembleTwitterInterface (l.285-389)                                    *)
(***************************************************************************)
\* tweetMemoryResult.focusTweet, when defined (l.310).
FocusOf(tmr) == tmr.focusTweet[1]
HasFocus(tmr) == Len(tmr.focusTweet) > 0

\* The three lists the photo loops run over, as (photoUrl, sender) pairs:
\* l.312-313, l.328-329 and l.345-346.
FocusPhotoList(tmr) ==
    IF HasFocus(tmr)
    THEN [i \in 1..Len(FocusOf(tmr).photos) |->
             [photoUrl |-> FocusOf(tmr).photos[i],
              sender |-> FocusOf(tmr).sender]]
    ELSE << >>

QuotePhotoList(tmr) ==
    IF HasFocus(tmr) /\ FocusOf(tmr).quoteContext.present
    THEN [i \in 1..Len(FocusOf(tmr).quoteContext.photos) |->
             [photoUrl |-> FocusOf(tmr).quoteContext.photos[i],
              sender |-> OrUnknownUser(FocusOf(tmr).quoteContext.sender)]]
    ELSE << >>

ThreadPhotoList(tmr) == tmr.photos

\* A loop that checks nothing: !processedPhotoUrls.has(photoUrl) taken as true.
AlreadyProcessedNever(photoUrl, processed) == FALSE

\* processedPhotoUrls.has(photoUrl) (l.314, 330, 347).
AlreadyProcessed(photoUrl, processed) == photoUrl \in processed

\* A loop that forgets processedPhotoUrls.add(photoUrl).
MarkProcessedNever(photoUrl, processed) == processed

\* processedPhotoUrls.add(photoUrl) (l.321, 337, 354).
MarkProcessed(photoUrl, processed) == processed \cup {photoUrl}

\* The entry put at the front of the list.
PushFront(images, entry) == << entry >> \o images

\* A loop that records the url although its fetch gave nothing.
AfterFailedFetchMarked(photoUrl, processed) == processed \cup {photoUrl}

\* processedPhotoUrls when imageData is null: the if of l.316, 332, 349 is
\* skipped and the set is left as it was.
AfterFailedFetch(photoUrl, processed) == processed

\* imageContents.push(entry) (l.317, 333, 350).
Push(images, entry) == Append(images, entry)

\* One iteration of a photo loop (l.314-323, 330-339, 347-356).  The entry
\* pushed is {sender, ...imageData}; locator and origin record, for the
\* history, the url it was fetched from and the loop and position that
\* pushed it.  A fetch is logged under the loop and position that made it.
ProcessPhoto(p) ==
    IF AlreadyProcessed(p.photoUrl, processedPhotoUrls)
    THEN /\ UNCHANGED << imageContents, processedPhotoUrls, fetchLog >>
         /\ photoIdx' = photoIdx + 1
         /\ UNCHANGED pc
    ELSE \E o \in OutcomesOf({"value", "throw"}, pc, photoIdx, p.photoUrl) :
            LET imageData == GetImageAsBase64(p.photoUrl, o)
            IN  /\ fetchLog' = Logged(pc, photoIdx, p.photoUrl, o)
                /\ IF imageData.threw
                   THEN /\ pc' = "raised"
                        /\ UNCHANGED << imageContents, processedPhotoUrls, photoIdx >>
                   ELSE /\ UNCHANGED pc
                        /\ photoIdx' = photoIdx + 1
                        /\ IF Len(imageData.value) > 0
                           THEN /\ imageContents' = Push(imageContents,
                                      [sender |-> p.sender,
                                       media_type |-> imageData.value[1].media_type,
                                       data |-> imageData.value[1].data,
                                       locator |-> p.photoUrl,
                                       origin |-> [loop |-> pc, index |-> photoIdx]])
                                /\ processedPhotoUrls' =
                                      MarkProcessed(p.photoUrl, processedPhotoUrls)
                           ELSE /\ UNCHANGED imageContents
                                /\ processedPhotoUrls' =
                                      AfterFailedFetch(p.photoUrl, processedPhotoUrls)

\* A photo loop at position photoIdx of list: one iteration, or the exit
\* to the next part of the function.
PhotoLoop(list, next) ==
    IF photoIdx <= Len(list)
    THEN ProcessPhoto(list[photoIdx])
    ELSE /\ pc' = next
         /\ photoIdx' = 1
         /\ UNCHANGED << imageContents, processedPhotoUrls, fetchLog >>

AsmUnchanged ==
    UNCHANGED << notAsmVars, tweets, storedConversation, backing, run,
                    firstResult,
                 tweet, conversationWithUser, focusTweet, currentTweet,
                 parentTweets, pendingQuotes, conversation, conversationThread,
                 tweetMemoryResult, result >>

\* l.312-325.
ProcessFocusPhotos ==
    /\ pc = "asm_focusPhotos"
    /\ PhotoLoop(FocusPhotoList(tweetMemoryResult), "asm_quotePhotos")
    /\ AsmUnchanged

\* l.328-341.
ProcessQuotePhotos ==
    /\ pc = "asm_quotePhotos"
    /\ PhotoLoop(QuotePhotoList(tweetMemoryResult), "asm_threadPhotos")
    /\ AsmUnchanged

\* l.345-358.
ProcessThreadPhotos ==
    /\ pc = "asm_threadPhotos"
    /\ PhotoLoop(ThreadPhotoList(tweetMemoryResult), "asm_text")
    /\ AsmUnchanged

\* focusTweetSection (l.362-374): << >> is the empty string.
FocusTweetSection(tmr) ==
    IF ~tmr.isNull /\ HasFocus(tmr)
    THEN << [sender |-> OrUnknownUser(FocusOf(tmr).sender),
             time |-> FocusOf(tmr).timestamp,
             content |-> FocusOf(tmr).text,
             quote |-> IF FocusOf(tmr).quoteContext.present
                       THEN << [sender |-> OrUnknownUser(FocusOf(tmr).quoteContext.sender),
                                time |-> FocusOf(tmr).quoteContext.timestamp,
                                content |-> FocusOf(tmr).quoteContext.text,
                                images |-> Len(FocusOf(tmr).quoteContext.photos)] >>
                       ELSE << >>] >>
    ELSE << >>

\* textContent (l.376-386), by part: the name in the history heading
\* (l.380), tweetMemory (l.297, l.381: << >> is ''), the highlighted
\* section (l.383) and the number announced by the images note (l.385:
\* 0 is no note).
TextContent(tmr, images) ==
    [historyBetweenYouAnd |->
        IF ~tmr.isNull /\ HasFocus(tmr) /\ FocusOf(tmr).sender # ""
        THEN FocusOf(tmr).sender ELSE "THE USER",
     tweetMemory |-> IF tmr.isNull THEN << >> ELSE << tmr.memory >>,
     focusTweetSection |-> FocusTweetSection(tmr),
     imagesNote |-> Len(images)]

\* l.361-388.
ReturnInterface ==
    /\ pc = "asm_text"
    /\ result' = [textContent |-> TextContent(tweetMemoryResult, imageContents),
                  imageContents |-> imageContents]
    /\ pc' = "done"
    /\ UNCHANGED << notAsmVars, tweets, storedConversation, backing, run,
                    firstResult,
                    tweet, conversationWithUser, focusTweet, currentTweet,
                    parentTweets, pendingQuotes, conversation, conversationThread,
                    tweetMemoryResult, imageContents, processedPhotoUrls,
                    photoIdx, fetchLog >>

(***************************************************************************)
(* Specification                                                           *)
(***************************************************************************)
\* A Set that outlives the call that made it.
SetOfEarlierCall(earlier) == earlier

\* new Set<string>() (l.305).
NewSet(earlier) == {}

\* What assembleTwitterInterface returns when nothing resolved.
EmptyBundle ==
    [textContent |-> TextContent(NullResult, << >>), imageContents |-> << >>]

\* No message is being formatted and no response processed.
NothingFormatted ==
    /\ formatArg = [author |-> "", message |-> ParentNode(NullTweet, NoQuote),
                    quoteAuthor |-> ""]
    /\ formatted = << >>

NothingProcessed ==
    /\ response = << >>
    /\ adapterResult = << >>

\* No replyToTweet call has been made.
ReplyIdle ==
    /\ rpc = "idle"
    /\ calls = 0
    /\ replyToTweetId = 0
    /\ mediaUrls = FALSE
    /\ targetTweet = NullTweet
    /\ replyTweetId = 0
    /\ returnValue = 0
    /\ interactionLogged = FALSE
    /\ sentReplies = << >>
    /\ twitter_interactions = {}

Init ==
    /\ ReplyIdle
    /\ NothingFormatted
    /\ NothingProcessed
    /\ tweets \in Worlds
    /\ storedConversation \in HistoryLists
    /\ backing = "changing"
    /\ run = 1
    /\ firstResult = EmptyBundle
    /\ pc = "fm_getTweet"
    /\ tweet = NullTweet
    /\ conversationWithUser = << >>
    /\ focusTweet = NullTweet
    /\ currentTweet = NullTweet
    /\ parentTweets = << >>
    /\ pendingQuotes = {}
    /\ conversation = << >>
    /\ conversationThread = << >>
    /\ tweetMemoryResult = NullResult
    /\ imageContents = << >>
    /\ processedPhotoUrls = NewSet({})
    /\ photoIdx = 1
    /\ result = EmptyBundle
    /\ fetchLog = << >>

Next ==
    \/ FetchTweetForMemory
    \/ FetchConversationWithUser
    \/ FetchFocusTweet
    \/ FetchParentTweet
    \/ FetchParentQuote
    \/ FetchFocusQuote
    \/ ProcessFocusPhotos
    \/ ProcessQuotePhotos
    \/ ProcessThreadPhotos
    \/ ReturnInterface

Spec == Init /\ [][Next]_vars

(***************************************************************************)
(* Two calls in a row against backing data that does not change            *)
(***************************************************************************)
\* The same start, with every fetch of a key settling the same way.
InitUnchanged ==
    /\ ReplyIdle
    /\ NothingFormatted
    /\ NothingProcessed
    /\ tweets \in Worlds
    /\ storedConversation \in HistoryLists
    /\ backing = "unchanged"
    /\ run = 1
    /\ firstResult = EmptyBundle
    /\ pc = "fm_getTweet"
    /\ tweet = NullTweet
    /\ conversationWithUser = << >>
    /\ focusTweet = NullTweet
    /\ currentTweet = NullTweet
    /\ parentTweets = << >>
    /\ pendingQuotes = {}
    /\ conversation = << >>
    /\ conversationThread = << >>
    /\ tweetMemoryResult = NullResult
    /\ imageContents = << >>
    /\ processedPhotoUrls = NewSet({})
    /\ photoIdx = 1
    /\ result = EmptyBundle
    /\ fetchLog = << >>

\* assembleTwitterInterface is called again with the same tweetId once
\* the first call has returned: every local of the three functions is
\* created anew (l.51-61, l.214-229, l.296-305); the value the first call
\* returned is kept for comparison.
CallAgain ==
    /\ pc = "done"
    /\ run = 1
    /\ run' = 2
    /\ firstResult' = result
    /\ pc' = "fm_getTweet"
    /\ tweet' = NullTweet
    /\ conversationWithUser' = << >>
    /\ focusTweet' = NullTweet
    /\ currentTweet' = NullTweet
    /\ parentTweets' = << >>
    /\ pendingQuotes' = {}
    /\ conversation' = << >>
    /\ conversationThread' = << >>
    /\ tweetMemoryResult' = NullResult
    /\ imageContents' = << >>
    /\ processedPhotoUrls' = NewSet(processedPhotoUrls)
    /\ photoIdx' = 1
    /\ result' = EmptyBundle
    /\ UNCHANGED << notAsmVars, tweets, storedConversation, backing, fetchLog >>

NextTwice ==
    \/ FetchTweetForMemory
    \/ FetchConversationWithUser
    \/ FetchFocusTweet
    \/ FetchParentTweet
    \/ FetchParentQuote
    \/ FetchFocusQuote
    \/ ProcessFocusPhotos
    \/ ProcessQuotePhotos
    \/ ProcessThreadPhotos
    \/ ReturnInterface
    \/ CallAgain

SpecTwice == InitUnchanged /\ [][NextTwice]_vars

(***************************************************************************)
(* One call against a store whose parent references form a cycle           *)
(***************************************************************************)
\* The chain 1 <- ... <- n with its root replying to the chain tweet c.
Cyclic(w, n, c) == [w EXCEPT ![n].inReplyToStatusId = c]

CycleWorlds ==
    UNION { { Cyclic(World(n, <<"bob", "Hi">>,
                           [k \in ChainIds |-> k <= n /\ k \in qs],
                           [k \in ChainIds |-> k <= n /\ k \in ps]), n, c) :
                c \in 1..n, qs \in {{}, {1}, {2}}, ps \in {{}, {2}} } :
            n \in ChainIds }

InitCycle ==
    /\ ReplyIdle
    /\ NothingFormatted
    /\ NothingProcessed
    /\ tweets \in CycleWorlds
    /\ storedConversation \in HistoryLists
    /\ backing = "changing"
    /\ run = 1
    /\ firstResult = EmptyBundle
    /\ pc = "fm_getTweet"
    /\ tweet = NullTweet
    /\ conversationWithUser = << >>
    /\ focusTweet = NullTweet
    /\ currentTweet = NullTweet
    /\ parentTweets = << >>
    /\ pendingQuotes = {}
    /\ conversation = << >>
    /\ conversationThread = << >>
    /\ tweetMemoryResult = NullResult
    /\ imageContents = << >>
    /\ processedPhotoUrls = NewSet({})
    /\ photoIdx = 1
    /\ result = EmptyBundle
    /\ fetchLog = << >>

NextCycle ==
    \/ FetchTweetForMemory
    \/ FetchConversationWithUser
    \/ FetchFocusTweet
    \/ FetchParentTweet
    \/ FetchParentQuote
    \/ FetchFocusQuote
    \/ ProcessFocusPhotos
    \/ ProcessQuotePhotos
    \/ ProcessThreadPhotos
    \/ ReturnInterface

SpecCycle == InitCycle /\ [][NextCycle]_vars

(***************************************************************************)
(* replyToTweet (l.407-476): a sequence of calls, one await per step.      *)
(* likeTweet, sendTweet, logTweet, findOrCreateUserFromTweet,              *)
(* analyzeTweetContext and logTwitterInteraction are imported (l.391-398); *)
(* each resolves or rejects, and those whose result the code tests can     *)
(* resolve to a falsy value.                                               *)
(***************************************************************************)
\* The tweets replyToTweet is called with: the focus tweet and its parent.
ReplyIds == {1, 2}

\* The store of the calls: a chain of two tweets, the first in each of its
\* variants (one has no username).
ReplyWorlds ==
    { World(2, fv, [k \in ChainIds |-> FALSE], [k \in ChainIds |-> FALSE]) :
        fv \in FocusVariants }

\* rest_id the platform gives the next reply.
NextRestId == 100 + Len(sentReplies)

\* The call has returned v (return at l.417, 433, 454, 470, 474).
Return(v) ==
    /\ rpc' = "returned"
    /\ returnValue' = v

\* replyToTweet(replyToTweetId, text, mediaUrls) is called.
CallReplyToTweet ==
    /\ rpc \in {"idle", "returned"}
    /\ calls < MaxCalls
    /\ \E id \in ReplyIds, media \in BOOLEAN :
        /\ replyToTweetId' = id
        /\ mediaUrls' = media
    /\ calls' = calls + 1
    /\ rpc' = "r_getTweet"
    /\ targetTweet' = NullTweet
    /\ replyTweetId' = 0
    /\ returnValue' = 0
    /\ interactionLogged' = FALSE
    /\ UNCHANGED << asmVars, formatVars, adapterVars,
                    sentReplies, twitter_interactions >>

\* l.414-418.
GetTargetTweet ==
    /\ rpc = "r_getTweet"
    /\ \E o \in Outcomes :
        IF o = "value" /\ GetTweet(replyToTweetId, o).username # ""
        THEN /\ targetTweet' = GetTweet(replyToTweetId, o)
             /\ rpc' = IF mediaUrls THEN "r_media" ELSE "r_like"
             /\ UNCHANGED returnValue
        ELSE /\ Return(0)
             /\ UNCHANGED targetTweet
    /\ UNCHANGED << asmVars, formatVars, adapterVars,
                    calls, replyToTweetId, mediaUrls, replyTweetId,
                    interactionLogged, sentReplies, twitter_interactions >>

\* l.421: prepareMediaData resolves, or rejects into the catch (l.472).
PrepareMediaData ==
    /\ rpc = "r_media"
    /\ \/ /\ rpc' = "r_like"
          /\ UNCHANGED returnValue
       \/ Return(0)
    /\ UNCHANGED << asmVars, formatVars, adapterVars,
                    calls, replyToTweetId, mediaUrls, targetTweet,
                    replyTweetId, interactionLogged, sentReplies,
                    twitter_interactions >>

\* l.424.
LikeTweet ==
    /\ rpc = "r_like"
    /\ \/ /\ rpc' = "r_send"
          /\ UNCHANGED returnValue
       \/ Return(0)
    /\ UNCHANGED << asmVars, formatVars, adapterVars,
                    calls, replyToTweetId, mediaUrls, targetTweet,
                    replyTweetId, interactionLogged, sentReplies,
                    twitter_interactions >>

\* l.427-434: the reply is posted and the response carries its rest_id; or
\* the response carries none; or sendTweet / response.json() rejects.
SendTweet ==
    /\ rpc = "r_send"
    /\ \/ /\ replyTweetId' = NextRestId
          /\ sentReplies' = Append(sentReplies,
                 [rest_id |-> NextRestId,
                  in_reply_to |-> replyToTweetId,
                  interactionRecorded |-> replyToTweetId \in twitter_interactions])
          /\ rpc' = "r_logTweet"
          /\ UNCHANGED returnValue
       \/ /\ Return(0)
          /\ UNCHANGED << replyTweetId, sentReplies >>
    /\ UNCHANGED << asmVars, formatVars, adapterVars,
                    calls, replyToTweetId, mediaUrls, targetTweet,
                    interactionLogged, twitter_interactions >>

\* l.437-448: a falsy tweetLogResult is only reported; a rejection lands
\* in the catch.
LogTweet ==
    /\ rpc = "r_logTweet"
    /\ \/ /\ rpc' = "r_findUser"
          /\ UNCHANGED returnValue
       \/ Return(0)
    /\ UNCHANGED << asmVars, formatVars, adapterVars,
                    calls, replyToTweetId, mediaUrls, targetTweet,
                    replyTweetId, interactionLogged, sentReplies,
                    twitter_interactions >>

\* l.451-455: userAccounts, or a falsy value (return null), or a rejection.
FindOrCreateUserFromTweet ==
    /\ rpc = "r_findUser"
    /\ \E o \in Outcomes :
        IF o = "value"
        THEN /\ rpc' = "r_analyze"
             /\ UNCHANGED returnValue
        ELSE Return(0)
    /\ UNCHANGED << asmVars, formatVars, adapterVars,
                    calls, replyToTweetId, mediaUrls, targetTweet,
                    replyTweetId, interactionLogged, sentReplies,
                    twitter_interactions >>

\* l.458.
AnalyzeTweetContext ==
    /\ rpc = "r_analyze"
    /\ \/ /\ rpc' = "r_logInteraction"
          /\ UNCHANGED returnValue
       \/ Return(0)
    /\ UNCHANGED << asmVars, formatVars, adapterVars,
                    calls, replyToTweetId, mediaUrls, targetTweet,
                    replyTweetId, interactionLogged, sentReplies,
                    twitter_interactions >>

\* l.461-470: logTwitterInteraction is called; it resolves (the row is
\* there afterwards: UNIQUE(tweet_id) keeps one row per tweet) and the
\* call returns replyTweetId, or it rejects into the catch.
LogTwitterInteraction ==
    /\ rpc = "r_logInteraction"
    /\ interactionLogged' = TRUE
    /\ \/ /\ twitter_interactions' = twitter_interactions \cup {replyToTweetId}
          /\ Return(replyTweetId)
       \/ /\ Return(0)
          /\ UNCHANGED twitter_interactions
    /\ UNCHANGED << asmVars, formatVars, adapterVars,
                    calls, replyToTweetId, mediaUrls, targetTweet,
                    replyTweetId, sentReplies >>

\* assembleTwitterInterface is not called.
AssemblyIdle ==
    /\ storedConversation = << >>
    /\ backing = "changing"
    /\ run = 1
    /\ firstResult = EmptyBundle
    /\ pc = "idle"
    /\ tweet = NullTweet
    /\ conversationWithUser = << >>
    /\ focusTweet = NullTweet
    /\ currentTweet = NullTweet
    /\ parentTweets = << >>
    /\ pendingQuotes = {}
    /\ conversation = << >>
    /\ conversationThread = << >>
    /\ tweetMemoryResult = NullResult
    /\ imageContents = << >>
    /\ processedPhotoUrls = NewSet({})
    /\ photoIdx = 1
    /\ result = EmptyBundle
    /\ fetchLog = << >>

\* The calls run against one store.
InitReply ==
    /\ ReplyIdle
    /\ NothingFormatted
    /\ NothingProcessed
    /\ tweets \in ReplyWorlds
    /\ AssemblyIdle

NextReply ==
    \/ CallReplyToTweet
    \/ GetTargetTweet
    \/ PrepareMediaData
    \/ LikeTweet
    \/ SendTweet
    \/ LogTweet
    \/ FindOrCreateUserFromTweet
    \/ AnalyzeTweetContext
    \/ LogTwitterInteraction

SpecReply == InitReply /\ [][NextReply]_vars

(***************************************************************************)
(* formatMessage (l.140-159) applied to one thread message                 *)
(***************************************************************************)
\* Handles of accounts other than the bot's.
ThirdPartyHandles == {"bob", "agent", "Agent", "AGENT", ""}

\* The username the platform reports for a tweet of the author.
HandlesOf(author) ==
    IF author = "bot" THEN {TWITTER_USERNAME} ELSE ThirdPartyHandles

TweetBy(username, text, photos) ==
    [NullTweet EXCEPT !.username = username, !.text = text, !.photos = photos]

\* A thread message as getConversationThread builds it (l.79-95), with
\* who wrote the tweet and who wrote the tweet it quotes ("": no quote).
FormatArgs ==
    { [author |-> a, quoteAuthor |-> "",
       message |-> ParentNode(TweetBy(u, t, << >>), NoQuote)] :
        a \in {"bot", "other"}, u \in ThirdPartyHandles \cup {TWITTER_USERNAME},
        t \in {"Hi", ""} }
    \cup
    { [author |-> a, quoteAuthor |-> qa,
       message |-> ParentNode(TweetBy(u, "Hi", << >>),
                              QuoteContextOf(TweetBy(qu, "quoted", ps)))] :
        a \in {"bot", "other"}, qa \in {"bot", "other"},
        u \in ThirdPartyHandles \cup {TWITTER_USERNAME},
        qu \in ThirdPartyHandles \cup {TWITTER_USERNAME},
        ps \in {<< >>, << "u2" >>} }

InitFormat ==
    /\ formatArg \in
          { f \in FormatArgs :
              /\ \E u \in HandlesOf(f.author) :
                    f.message.sender = OrUnknownUser(u)
              /\ f.quoteAuthor # "" =>
                    \E u \in HandlesOf(f.quoteAuthor) :
                        f.message.quoteContext.sender = OrUnknownUser(u) }
    /\ formatted = << >>
    /\ NothingProcessed
    /\ ReplyIdle
    /\ tweets \in { w \in ReplyWorlds : w[tweetId].username = "bob"
                                          /\ w[tweetId].text = "Hi" }
    /\ AssemblyIdle

\* formatMessage(msg) is called and returns.
CallFormatMessage ==
    /\ formatted = << >>
    /\ formatted' = << FormatMessage(formatArg.message) >>
    /\ UNCHANGED << asmVars, replyVars, adapterVars, formatArg >>

NextFormat == CallFormatMessage

SpecFormat == InitFormat /\ [][NextFormat]_vars

(***************************************************************************)
(* AnthropicAdapter.processResponse                                        *)
(* (src/src/ai/models/adapters/AnthropicAdapter.ts, l.54-78)               *)
(***************************************************************************)
\* The items of a content list: text blocks and tool_use blocks.  A field
\* an item does not have is "".
TextItem(text) ==
    [type |-> "text", text |-> text, name |-> "", input |-> ""]

ToolUseItem(name, input) ==
    [type |-> "tool_use", text |-> "", name |-> name, input |-> input]

ContentItems ==
    { TextItem("On it."), TextItem(""),
      ToolUseItem("post_tweet", "args1"), ToolUseItem("reply_to_tweet", "args2") }

\* The content lists of up to MaxContent items; << >> is also a response
\* without content.
ContentLists ==
    UNION { [1..n -> ContentItems] : n \in 0..MaxContent }

\* processResponse (l.54-78): only response.content[0] is read.
ProcessResponse(content) ==
    LET first == IF Len(content) > 0 THEN << content[1] >> ELSE << >>
        text == IF Len(first) > 0 THEN first[1].text ELSE ""
        normalizedMessage == [role |-> "assistant", content |-> text]
    IN  IF Len(first) > 0 /\ first[1].type = "tool_use"
        THEN [aiMessage |-> normalizedMessage,
              functionCall |-> << [functionName |-> first[1].name,
                                   functionArgs |-> first[1].input] >>]
        ELSE [aiMessage |-> normalizedMessage, functionCall |-> << >>]

InitAdapter ==
    /\ response \in ContentLists
    /\ adapterResult = << >>
    /\ NothingFormatted
    /\ ReplyIdle
    /\ tweets \in { w \in ReplyWorlds : w[tweetId].username = "bob"
                                          /\ w[tweetId].text = "Hi" }
    /\ AssemblyIdle

\* processResponse(response) is called and returns.
CallProcessResponse ==
    /\ adapterResult = << >>
    /\ adapterResult' = << ProcessResponse(response) >>
    /\ UNCHANGED << asmVars, replyVars, formatVars, response >>

NextAdapter == CallProcessResponse

SpecAdapter == InitAdapter /\ [][NextAdapter]_vars


(***************************************************************************)
(* Vocabulary of the properties                                            *)
(***************************************************************************)
\* The fetches made at one site, in the order they were made.
FetchesAt(site) == SelectSeq(fetchLog, LAMBDA e : e.site = site)

AllValue(log) == \A i \in DOMAIN log : log[i].outcome = "value"

\* The image fetches of the call, in the order they were made.
ImageFetchLog == SelectSeq(fetchLog, LAMBDA e : e.site \in PhotoLoops)

\* getConversationThread has returned to fetchAndFormatTweetMemory.
ThreadReturned ==
    /\ pc \in {"asm_focusPhotos", "asm_quotePhotos", "asm_threadPhotos",
               "asm_text", "done"}
    /\ ~tweetMemoryResult.isNull

\* The focus tweet and every ancestor of the chain were fetched by
\* getConversationThread, each fetch resolving to its tweet.
WalkResolvedWholeChain ==
    /\ ThreadReturned
    /\ Len(FetchesAt("ct_getFocus")) = 1
    /\ AllValue(FetchesAt("ct_getFocus"))
    /\ AllValue(FetchesAt("ct_walk"))
    /\ Len(FetchesAt("ct_walk")) = ChainLength(tweets, tweetId) - 1

\* thread is root-first, each element the reply-parent of the next, the
\* focus tweet last and the only element flagged isFocusTweet.
IsAncestorSequence(thread, n) ==
    /\ Len(thread) = n
    /\ n >= 1
    /\ thread[n].tweet_id = tweetId
    /\ \A i \in 1..n : thread[i].isFocusTweet <=> (i = n)
    /\ \A i \in 1..(n - 1) :
          tweets[thread[i + 1].tweet_id].inReplyToStatusId = thread[i].tweet_id

\* The entries of an image list fetched from one locator.
EntriesOf(images, url) == { i \in DOMAIN images : images[i].locator = url }

SeqRange(s) == { s[i] : i \in DOMAIN s }

\* The thread messages of a memory, in the order they are rendered.
Transcript(memory) ==
    memory.parentTweetSection \o memory.repliesAboveSection
        \o memory.focusTweetSection

(***************************************************************************)
(* Properties                                                              *)
(***************************************************************************)
\* C1: for a reply chain of N messages in which the focus and every parent
\* fetch of the walk succeed, getConversationThread returns exactly N
\* elements, root first, each the reply-parent of the next, the focus
\* tweet last and the only one flagged isFocusTweet.
C1_FullChainReturned ==
    WalkResolvedWholeChain =>
        IsAncestorSequence(conversationThread, ChainLength(tweets, tweetId))

\* C2: when a parent fetch of the walk fails (not found, or a rejected
\* fetch), getConversationThread still returns every message resolved
\* before the failure, in order and ending with the focus tweet.
C2_PartialChainKept ==
    ( /\ ThreadReturned
      /\ AllValue(FetchesAt("ct_getFocus"))
      /\ ~AllValue(FetchesAt("ct_walk")) )
    => IsAncestorSequence(conversationThread, Len(FetchesAt("ct_walk")))

\* C3: when the fetch of the focus tweet at the entry of
\* fetchAndFormatTweetMemory fails (null or rejected), the value returned
\* by assembleTwitterInterface carries no transcript, no highlighted focus
\* section, no images note and no image.
C3_NoDataWhenFocusUnresolved ==
    (pc = "done" /\ fetchLog[1].outcome # "value") =>
        /\ result.textContent.tweetMemory = << >>
        /\ result.textContent.focusTweetSection = << >>
        /\ result.textContent.imagesNote = 0
        /\ result.imageContents = << >>

C3_Witness ==
    /\ pc = "done"
    /\ fetchLog[1].outcome # "value"
    /\ tweets[tweetId].photos # << >>

\* C4: whenever the focus tweet can be fetched, the value returned carries
\* the transcript and the highlighted focus section, whatever the other
\* fetches do and whatever the focus tweet contains.
C4_BundleWheneverFocusFetched ==
    (pc = "done" /\ fetchLog[1].outcome = "value") =>
        /\ result.textContent.tweetMemory # << >>
        /\ result.textContent.focusTweetSection # << >>

\* C5: assembleTwitterInterface never raises: no rejection of a message,
\* history or image fetch escapes it, and from every position short of
\* its return the call can go on, up to returning
\* {textContent, imageContents}.
C5_NeverRaises ==
    /\ pc # "raised"
    /\ pc # "done" => ENABLED Next
    /\ pc = "done" => DOMAIN result = {"textContent", "imageContents"}

C5_Witness ==
    /\ pc = "done"
    /\ \E i \in DOMAIN fetchLog :
          fetchLog[i].site \in PhotoLoops /\ fetchLog[i].outcome = "throw"
    /\ \E i \in DOMAIN fetchLog :
          fetchLog[i].site = "ct_walk" /\ fetchLog[i].outcome = "null"
    /\ \E i \in DOMAIN fetchLog :
          fetchLog[i].site = "ct_focusQuote" /\ fetchLog[i].outcome = "null"

\* C6: no image locator has more than one entry in imageContents, at any
\* point of the assembly and in the value returned.
C6_OneEntryPerLocator ==
    /\ \A i, j \in DOMAIN imageContents :
          imageContents[i].locator = imageContents[j].locator => i = j
    /\ pc = "done" => result.imageContents = imageContents

\* The locator "u1" is referenced by the focus tweet, by its quote and by
\* an ancestor, and the returned list has an entry for it.
C6_Witness ==
    /\ pc = "done"
    /\ "u1" \in SeqRange([i \in DOMAIN FocusPhotoList(tweetMemoryResult) |->
                            FocusPhotoList(tweetMemoryResult)[i].photoUrl])
    /\ "u1" \in SeqRange([i \in DOMAIN QuotePhotoList(tweetMemoryResult) |->
                            QuotePhotoList(tweetMemoryResult)[i].photoUrl])
    /\ "u1" \in SeqRange([i \in DOMAIN ThreadPhotoList(tweetMemoryResult) |->
                            ThreadPhotoList(tweetMemoryResult)[i].photoUrl])
    /\ Cardinality(EntriesOf(result.imageContents, "u1")) = 1

\* C7: when two nodes of the returned thread carry the same image locator,
\* the entry of that locator in the final image list is tagged with the
\* sender of the earliest (most ancestral) node that carries it.
C7_EarlierSenderWins ==
    pc = "done" =>
        \A i, j \in DOMAIN conversationThread :
            \A u \in SeqRange(conversationThread[i].photos) :
                ( /\ i < j
                  /\ u \in SeqRange(conversationThread[j].photos)
                  /\ \A k \in 1..(i - 1) :
                        u \notin SeqRange(conversationThread[k].photos) )
                => \A e \in EntriesOf(result.imageContents, u) :
                      result.imageContents[e].sender = conversationThread[i].sender

\* The focus tweet quotes a resolved tweet with two images, one of which
\* is an image of an ancestor, and no image fetch of the call failed.
C8_Scenario ==
    /\ pc = "done"
    /\ HasFocus(tweetMemoryResult)
    /\ FocusOf(tweetMemoryResult).quoteContext.present
    /\ Len(FocusOf(tweetMemoryResult).quoteContext.photos) = 2
    /\ AllValue(ImageFetchLog)

SharedWithAncestor(url) ==
    \E i \in DOMAIN conversationThread :
        /\ ~conversationThread[i].isFocusTweet
        /\ url \in SeqRange(conversationThread[i].photos)

\* C8: in that scenario the final image list has exactly one entry for the
\* shared locator and exactly one for the quote's other image.
C8_QuoteImagesOnce ==
    C8_Scenario =>
        LET q == FocusOf(tweetMemoryResult).quoteContext.photos
        IN  \A k \in 1..2 :
                SharedWithAncestor(q[k]) =>
                    /\ Cardinality(EntriesOf(result.imageContents, q[k])) = 1
                    /\ Cardinality(EntriesOf(result.imageContents, q[3 - k])) = 1

C8_Witness ==
    /\ C8_Scenario
    /\ \E k \in 1..2 :
          /\ SharedWithAncestor(FocusOf(tweetMemoryResult).quoteContext.photos[k])
          /\ FocusOf(tweetMemoryResult).quoteContext.photos[3 - k]
                # FocusOf(tweetMemoryResult).quoteContext.photos[k]
    /\ Len(result.imageContents) = 2

\* C9: every bundle produced (fetchAndFormatTweetMemory returned a value)
\* has the focus tweet as the last message of the transcript and in the
\* highlighted focus section.
C9_FocusInBothPlaces ==
    (pc = "done" /\ ~tweetMemoryResult.isNull) =>
        /\ Len(Transcript(tweetMemoryResult.memory)) > 0
        /\ Len(conversationThread) > 0
        /\ conversationThread[Len(conversationThread)].tweet_id = tweetId
        /\ Transcript(tweetMemoryResult.memory)
              [Len(Transcript(tweetMemoryResult.memory))]
              = FormatMessage(conversationThread[Len(conversationThread)])
        /\ Len(result.textContent.focusTweetSection) = 1
        /\ result.textContent.focusTweetSection[1].content = tweet.text

\* C10: for a non-empty sequence formatMemory renders the last element in
\* the focus section, the first in the parent section only when there is
\* more than one element, and the elements strictly between them, in
\* order, in the replies-above section.
C10_ThreeSections ==
    (ThreadReturned /\ Len(conversationThread) > 0) =>
        LET t == conversationThread
            m == tweetMemoryResult.memory
        IN  /\ m.focusTweetSection = << FormatMessage(t[Len(t)]) >>
            /\ m.parentTweetSection =
                  (IF Len(t) > 1 THEN << FormatMessage(t[1]) >> ELSE << >>)
            /\ m.repliesAboveSection =
                  FormatMessages(SubSeq(t, 2, Len(t) - 1))


\* C11: for a focus tweet with no parent and no quote, the transcript of
\* every bundle produced holds exactly one rendered thread message, the
\* focus tweet, followed by the history section (the history lines, or
\* the placeholder when there are none).
C11_LoneFocusTranscript ==
    ( /\ pc = "done"
      /\ ~tweetMemoryResult.isNull
      /\ tweets[tweetId].inReplyToStatusId = 0
      /\ tweets[tweetId].quotedStatusId = 0 )
    => /\ Transcript(tweetMemoryResult.memory)
            = << FormatMessage(FocusNode(tweets[tweetId], NoQuote)) >>
       /\ tweetMemoryResult.memory.formattedHistory
            = FormatHistory(conversationWithUser)
       /\ tweetMemoryResult.memory.historyPlaceholder
            = (conversationWithUser = << >>)
       /\ result.textContent.tweetMemory = << tweetMemoryResult.memory >>

\* The focus tweet "Hi" by bob replies to "Hello" by alice, which replies
\* to nothing; neither quotes nor carries an image, and every fetch resolved.
C12_Scenario ==
    /\ pc = "done"
    /\ ChainLength(tweets, tweetId) = 2
    /\ tweets[1].username = "bob" /\ tweets[2].username = "alice"
    /\ tweets[1].text = "Hi" /\ tweets[2].text = "Hello"
    /\ \A k \in 1..2 : tweets[k].quotedStatusId = 0 /\ tweets[k].photos = << >>
    /\ AllValue(fetchLog)

\* C12: in that scenario the transcript has a "Parent Tweet" section with
\* "Hello", a focus section with "Hi" and no replies-above section, and
\* the image list is empty.
C12_HiHello ==
    C12_Scenario =>
        LET m == result.textContent.tweetMemory[1]
        IN  /\ Len(m.parentTweetSection) = 1
            /\ m.parentTweetSection[1].text = "Hello"
            /\ Len(m.focusTweetSection) = 1
            /\ m.focusTweetSection[1].text = "Hi"
            /\ m.repliesAboveSection = << >>
            /\ result.imageContents = << >>

C12_Witness ==
    /\ C12_Scenario
    /\ result.textContent.focusTweetSection # << >>
    /\ Len(fetchLog) = 4

\* The parent fetches of the walk that resolved to a tweet.
ResolvedParents ==
    Len(SelectSeq(FetchesAt("ct_walk"), LAMBDA e : e.outcome = "value"))

QuoteFetchLog ==
    SelectSeq(fetchLog, LAMBDA e : e.site \in {"ct_quotes", "ct_focusQuote"})

\* C13: when the fetch of a quoted tweet fails (null or rejected), the
\* thread is still returned with every resolved node, the quoting node
\* among them; the failure never empties the thread.
C13_QuoteFailureAbsorbed ==
    ( /\ ThreadReturned
      /\ AllValue(FetchesAt("ct_getFocus"))
      /\ \A i \in DOMAIN fetchLog :
            fetchLog[i].site = "ct_walk" => fetchLog[i].outcome # "throw"
      /\ ~AllValue(QuoteFetchLog) )
    => IsAncestorSequence(conversationThread, ResolvedParents + 1)

\* The nodes of the call (parents and focus) that quote tweet q.
Quoters(q) ==
    Cardinality({ i \in DOMAIN parentTweets : parentTweets[i].quotedStatusId = q })
    + (IF focusTweet.quotedStatusId = q THEN 1 ELSE 0)

QuoteFetchesOf(q) ==
    Len(SelectSeq(QuoteFetchLog, LAMBDA e : e.id = q))

\* C14: quote resolution has depth one: a quoted tweet is fetched at most
\* once per node that quotes it, the walk only fetches tweets of the
\* focus tweet's own reply chain, and no quoted tweet becomes a node.
C14_QuoteDepthOne ==
    /\ \A q \in Ids : QuoteFetchesOf(q) <= Quoters(q)
    /\ \A i \in DOMAIN fetchLog :
          fetchLog[i].site = "ct_walk" =>
              /\ fetchLog[i].id \in ChainIds
              /\ fetchLog[i].id <= ChainLength(tweets, tweetId)
    /\ \A i \in DOMAIN conversationThread :
          conversationThread[i].tweet_id \in ChainIds

\* QuoteC, which quotes and replies to QuoteA, was resolved for a parent,
\* and QuoteA was never fetched.
C14_Witness ==
    /\ pc = "done"
    /\ \E i \in DOMAIN conversationThread :
          /\ conversationThread[i].quoteContext.present
          /\ conversationThread[i].quoteContext.sender = "erin"
    /\ \A i \in DOMAIN fetchLog : fetchLog[i].id # QuoteA

(***************************************************************************)
(* Image list: order, collector list, focus images                         *)
(***************************************************************************)
Urls == {"u0", "u1", "u2"}

LoopRank(loop) ==
    CASE loop = "asm_focusPhotos" -> 1
      [] loop = "asm_quotePhotos" -> 2
      [] loop = "asm_threadPhotos" -> 3

\* The list a photo loop runs over.
LoopList(loop) ==
    CASE loop = "asm_focusPhotos" -> FocusPhotoList(tweetMemoryResult)
      [] loop = "asm_quotePhotos" -> QuotePhotoList(tweetMemoryResult)
      [] loop = "asm_threadPhotos" -> ThreadPhotoList(tweetMemoryResult)

\* The entry was made from the pair at its position of its loop's list.
MadeFromItsPair(e) ==
    /\ e.origin.index \in DOMAIN LoopList(e.origin.loop)
    /\ LoopList(e.origin.loop)[e.origin.index] =
          [photoUrl |-> e.locator, sender |-> e.sender]

\* C15: the image list is ordered by group, the focus tweet's own images
\* first, then the images of the focus tweet's quote, then those of the
\* collector's list (the other thread nodes, in thread order); inside a
\* group the entries keep the order of the source list; and the list
\* returned is the list built.
C15_ImageOrder ==
    /\ \A i \in DOMAIN imageContents : MadeFromItsPair(imageContents[i])
    /\ \A i, j \in DOMAIN imageContents :
          i < j =>
              LET a == imageContents[i].origin
                  b == imageContents[j].origin
              IN  \/ LoopRank(a.loop) < LoopRank(b.loop)
                  \/ /\ a.loop = b.loop
                     /\ a.index < b.index
    /\ pc = "done" => result.imageContents = imageContents

\* The returned list has entries of all three groups, after a failed fetch.
C15_Witness ==
    /\ pc = "done"
    /\ { result.imageContents[i].origin.loop : i \in DOMAIN result.imageContents }
          = PhotoLoops
    /\ ~AllValue(ImageFetchLog)

Occurrences(s, x) == Cardinality({ i \in DOMAIN s : s[i] = x })

\* How often a thread message carries the locator, in its own photos and in
\* its quote context's.
NodeOccurrences(node, url) ==
    Occurrences(node.photos, url)
    + (IF node.quoteContext.present
       THEN Occurrences(node.quoteContext.photos, url) ELSE 0)

RECURSIVE NonFocusOccurrences(_, _)
NonFocusOccurrences(thread, url) ==
    IF thread = << >> THEN 0
    ELSE (IF Head(thread).isFocusTweet THEN 0
          ELSE NodeOccurrences(Head(thread), url))
         + NonFocusOccurrences(Tail(thread), url)

PhotoUrlsOf(pairs) == [i \in DOMAIN pairs |-> pairs[i].photoUrl]

FetchFailedAt(loop, index) ==
    \E n \in DOMAIN fetchLog :
        /\ fetchLog[n].site = loop
        /\ fetchLog[n].id = index
        /\ fetchLog[n].outcome = "throw"

FromNonFocusNode(pair) ==
    \E i \in DOMAIN conversationThread :
        /\ ~conversationThread[i].isFocusTweet
        /\ pair \in SeqRange(PhotosOfMessage(conversationThread[i]))

\* C17: no pair of the collector's photos list comes from the focus node:
\* every pair is contributed by another node of the thread, and an entry
\* of the image list made from the focus node's own images is made by the
\* assembler's focus pass.
C17_FocusImagesNotCollected ==
    ThreadReturned =>
        /\ \A k \in DOMAIN tweetMemoryResult.photos :
              FromNonFocusNode(tweetMemoryResult.photos[k])
        /\ \A i \in DOMAIN imageContents :
              LET e == imageContents[i]
              IN  /\ e.origin.loop = "asm_threadPhotos" =>
                        FromNonFocusNode([photoUrl |-> e.locator,
                                          sender |-> e.sender])
                  /\ (HasFocus(tweetMemoryResult)
                        /\ e.sender = FocusOf(tweetMemoryResult).sender
                        /\ ~FromNonFocusNode([photoUrl |-> e.locator,
                                              sender |-> e.sender]))
                        => e.origin.loop = "asm_focusPhotos"

\* The focus tweet carries images, shares one with an ancestor, and the
\* returned list has an entry of the focus pass and one of the thread pass.
C17_Witness ==
    /\ pc = "done"
    /\ HasFocus(tweetMemoryResult)
    /\ Len(FocusOf(tweetMemoryResult).photos) = 2
    /\ SharedWithAncestor("u1")
    /\ \E i, j \in DOMAIN result.imageContents :
          /\ result.imageContents[i].origin.loop = "asm_focusPhotos"
          /\ result.imageContents[j].origin.loop = "asm_threadPhotos"

(***************************************************************************)
(* Quote resolution of the parents; the upward walk                        *)
(***************************************************************************)
\* The element is the node of tweet t, with no quote context or with the
\* context of the tweet that t quotes.
OwnNode(node, t) ==
    \/ node = ParentNode(t, NoQuote)
    \/ /\ t.quotedStatusId # 0
       /\ node = ParentNode(t, QuoteContextOf(tweets[t.quotedStatusId]))

\* C19: the quote fetches of the parents are in flight together, and in
\* whatever order they settle, element i of the map's result is the node
\* of parent i with the quote context of that parent's own quoted tweet
\* (or none); as many contexts are present as fetches resolved to a
\* tweet, and the thread returned keeps the parents in walk order.
C19_MergedByPosition ==
    /\ pc = "ct_quotes" =>
          /\ pendingQuotes \subseteq DOMAIN parentTweets
          /\ Len(conversation) = Len(parentTweets)
          /\ \A i \in DOMAIN conversation :
                /\ OwnNode(conversation[i], parentTweets[i])
                /\ i \in pendingQuotes => ~conversation[i].quoteContext.present
    /\ (ThreadReturned /\ conversationThread # << >>) =>
          /\ Len(conversationThread) = Len(parentTweets) + 1
          /\ \A i \in DOMAIN parentTweets :
                OwnNode(conversationThread[i], parentTweets[i])
          /\ Cardinality({ i \in DOMAIN parentTweets :
                              conversationThread[i].quoteContext.present })
                = Len(SelectSeq(FetchesAt("ct_quotes"),
                                LAMBDA e : e.outcome = "value"))

\* Position of the first fetch of tweet id in the log (0 when there is none).
FirstFetchOf(id) ==
    IF \E n \in DOMAIN fetchLog : fetchLog[n].id = id
    THEN CHOOSE n \in DOMAIN fetchLog :
            /\ fetchLog[n].id = id
            /\ \A m \in DOMAIN fetchLog : fetchLog[m].id = id => n <= m
    ELSE 0

\* Two parents quote different tweets, the fetch of the later parent's
\* quote settled before that of the earlier parent's, and both nodes carry
\* a quote context in the thread returned.
C19_Witness ==
    /\ pc = "done"
    /\ conversationThread # << >>
    /\ \E i, j \in DOMAIN parentTweets :
          /\ i < j
          /\ conversationThread[i].quoteContext.present
          /\ conversationThread[j].quoteContext.present
          /\ parentTweets[i].quotedStatusId # parentTweets[j].quotedStatusId
          /\ FirstFetchOf(parentTweets[j].quotedStatusId)
                < FirstFetchOf(parentTweets[i].quotedStatusId)

\* C20: on a finite acyclic chain the walk stops: every parent fetch is
\* for the parent of the tweet fetched before it, so the chain left above
\* the current tweet shrinks by one per fetch; there are fewer parent
\* fetches than tweets in the chain; nothing is fetched after a fetch that
\* did not resolve; and while the walk is on, the current tweet has a
\* parent and the next fetch can be made.
C20_WalkTerminates ==
    LET walk == FetchesAt("ct_walk")
    IN  /\ Len(walk) <= ChainLength(tweets, tweetId) - 1
        /\ \A n \in DOMAIN walk :
              /\ walk[n].id = tweets[IF n = 1 THEN tweetId
                                     ELSE walk[n - 1].id].inReplyToStatusId
              /\ ChainLength(tweets, walk[n].id)
                    = ChainLength(tweets, tweetId) - n
              /\ walk[n].outcome # "value" => n = Len(walk)
        /\ pc = "ct_walk" =>
              /\ AllValue(walk)
              /\ currentTweet.inReplyToStatusId # 0
              /\ ChainLength(tweets, currentTweet.id)
                    = ChainLength(tweets, tweetId) - Len(walk)
              /\ ENABLED FetchParentTweet
        /\ (pc # "ct_walk" /\ FetchesAt("ct_getFocus") # << >>
               /\ AllValue(FetchesAt("ct_getFocus")) /\ AllValue(walk)) =>
              Len(walk) = ChainLength(tweets, tweetId) - 1

\* The longest chain was walked to its root, one fetch per parent.
C20_Witness ==
    /\ pc = "done"
    /\ ChainLength(tweets, tweetId) = MaxChain
    /\ Len(FetchesAt("ct_walk")) = MaxChain - 1
    /\ AllValue(FetchesAt("ct_walk"))
    /\ Len(conversationThread) = MaxChain

(***************************************************************************)
(* Two calls                                                               *)
(***************************************************************************)
\* C18: when every tweet, history and image fetch settles in the second
\* call as it did in the first, the second call returns the bundle the
\* first call returned: the same text and the same image list in the same
\* order.
C18_SecondCallSameBundle ==
    (run = 2 /\ pc = "done") => result = firstResult

\* Both calls returned a bundle with a thread and images, after fetches
\* that failed.
C18_Witness ==
    /\ run = 2
    /\ pc = "done"
    /\ Len(conversationThread) >= 2
    /\ Len(result.imageContents) >= 2
    /\ ~AllValue(fetchLog)

(***************************************************************************)
(* replyToTweet                                                            *)
(***************************************************************************)
\* The call posted a reply and read its id from the response.
ReplyPosted == replyTweetId # 0

\* C21: a call that posted the reply and obtained its id returns that id,
\* whatever the later steps (logTweet, findOrCreateUserFromTweet,
\* analyzeTweetContext, logTwitterInteraction) do.
C21_NullOnlyWhenReplyFailed ==
    (rpc = "returned" /\ ReplyPosted) => returnValue = replyTweetId

\* C22: no reply is posted to a tweet whose interaction is already recorded
\* in twitter_interactions.
C22_NoSecondReply ==
    \A i \in DOMAIN sentReplies : ~sentReplies[i].interactionRecorded

\* C26: when the call returns after posting the reply, it has called
\* logTwitterInteraction; and it calls logTwitterInteraction only after
\* posting the reply.
C26_RepliedAndLogged ==
    /\ (rpc = "returned" /\ ReplyPosted) => interactionLogged
    /\ interactionLogged => ReplyPosted

(***************************************************************************)
(* Image fetches of one assembly                                           *)
(***************************************************************************)
\* How far the call is in the photo loops: 0 before them, 4 after them.
PcRank ==
    CASE pc \in PhotoLoops -> LoopRank(pc)
      [] pc \in {"asm_text", "done"} -> 4
      [] OTHER -> 0

\* Position (loopA, a) comes before position (loopB, b) in the three loops.
Before(loopA, a, rankB, b) ==
    \/ LoopRank(loopA) < rankB
    \/ LoopRank(loopA) = rankB /\ a < b

\* The loop has gone past the occurrence at position index of its list.
Passed(loop, index) == Before(loop, index, PcRank, photoIdx)

FetchedAt(loop, index) ==
    \E n \in DOMAIN fetchLog :
        fetchLog[n].site = loop /\ fetchLog[n].id = index

\* A fetch of the url succeeded at a position before (loop, index).
SucceededBefore(url, loop, index) ==
    \E n \in DOMAIN fetchLog :
        /\ fetchLog[n].site \in PhotoLoops
        /\ fetchLog[n].url = url
        /\ fetchLog[n].outcome = "value"
        /\ Before(fetchLog[n].site, fetchLog[n].id, LoopRank(loop), index)

SuccessfulFetches(url) ==
    { n \in DOMAIN ImageFetchLog :
        ImageFetchLog[n].url = url /\ ImageFetchLog[n].outcome = "value" }

\* C24: a locator is recorded as processed exactly when a fetch of it
\* succeeded; it is fetched successfully at most once; an occurrence the
\* loops have gone past was fetched exactly when no earlier fetch of its
\* locator had succeeded; the list has an entry for a locator exactly
\* when a fetch of it succeeded; and no failed fetch ends the call.
C24_MarkedOnlyOnSuccess ==
    /\ pc # "raised"
    /\ \A u \in Urls :
          /\ Cardinality(SuccessfulFetches(u)) <= 1
          /\ u \in processedPhotoUrls <=> SuccessfulFetches(u) # {}
          /\ EntriesOf(imageContents, u) # {} <=> SuccessfulFetches(u) # {}
    /\ \A loop \in PhotoLoops :
          \A index \in DOMAIN LoopList(loop) :
              Passed(loop, index) =>
                  (FetchedAt(loop, index) <=>
                      ~SucceededBefore(LoopList(loop)[index].photoUrl,
                                       loop, index))

\* A locator whose first fetch failed was fetched again with success at a
\* later occurrence and skipped at a third one.
C24_Witness ==
    /\ pc = "done"
    /\ \E i, j \in DOMAIN ImageFetchLog :
          /\ i < j
          /\ ImageFetchLog[i].url = ImageFetchLog[j].url
          /\ ImageFetchLog[i].outcome = "throw"
          /\ ImageFetchLog[j].outcome = "value"
          /\ \E index \in DOMAIN ThreadPhotoList(tweetMemoryResult) :
                /\ ThreadPhotoList(tweetMemoryResult)[index].photoUrl
                      = ImageFetchLog[i].url
                /\ ~FetchedAt("asm_threadPhotos", index)

(***************************************************************************)
(* The bot label                                                           *)
(***************************************************************************)
\* C25: a message is displayed under "(YOU)" exactly when the bot wrote
\* it, and so is its quote context; a message of anyone else is displayed
\* under its sender.
C25_BotLabelIffBot ==
    formatted # << >> =>
        /\ formatted[1].senderDisplay = "(YOU)" <=> formatArg.author = "bot"
        /\ formatArg.author = "other" =>
              formatted[1].senderDisplay = formatArg.message.sender
        /\ formatArg.quoteAuthor # "" =>
              /\ formatted[1].quote[1].senderDisplay = "(YOU)"
                    <=> formatArg.quoteAuthor = "bot"
              /\ formatArg.quoteAuthor = "other" =>
                    formatted[1].quote[1].senderDisplay
                        = formatArg.message.quoteContext.sender

(***************************************************************************)
(* Tool calls of a response                                                *)
(***************************************************************************)
ToolUses(content) == { i \in DOMAIN content : content[i].type = "tool_use" }

\* C27: the result of processResponse carries a functionCall with the name
\* and input of a tool_use item of the content list whenever the list has
\* one, at whatever position, and carries none when the list has none.
C27_ToolCallsHandled ==
    adapterResult # << >> =>
        IF ToolUses(response) # {}
        THEN /\ adapterResult[1].functionCall # << >>
             /\ \E i \in ToolUses(response) :
                   adapterResult[1].functionCall[1] =
                       [functionName |-> response[i].name,
                        functionArgs |-> response[i].input]
        ELSE adapterResult[1].functionCall = << >>

(***************************************************************************)
(* The walk on a cycle                                                     *)
(***************************************************************************)
\* getConversationThread was entered and its fetch of the focus resolved.
WalkStarted ==
    /\ FetchesAt("ct_getFocus") # << >>
    /\ AllValue(FetchesAt("ct_getFocus"))

\* C23: on a cycle of parent references the walk has no exit of its own:
\* while every parent fetch resolves the current tweet has a parent and
\* the next fetch is made, whatever was visited before; the walk is left
\* only after a parent fetch that did not resolve.
C23_CycleWalkOnlyStopsOnFailure ==
    /\ pc = "ct_walk" =>
          /\ AllValue(FetchesAt("ct_walk"))
          /\ Len(FetchesAt("ct_walk")) = Len(parentTweets)
          /\ currentTweet.inReplyToStatusId # 0
          /\ Len(parentTweets) < MaxHops => ENABLED FetchParentTweet
    /\ (WalkStarted /\ pc # "ct_walk") => ~AllValue(FetchesAt("ct_walk"))

\* The walk is on after fetching more parents than the store has tweets
\* in the chain, one tweet fetched twice.
C23_Witness ==
    /\ pc = "ct_walk"
    /\ Len(parentTweets) = MaxHops
    /\ \E i, j \in DOMAIN parentTweets :
          i < j /\ parentTweets[i].id = parentTweets[j].id

====
